---- MODULE Spec2Model ----
(***************************************************************************)
(* Model of the Controller side of ohh-brother: the process supervisor     *)
(* PythonProcess (electron/python-process.ts, src/unnamed/part_000) and    *)
(* the coordinator OhhBrotherApp (electron/main.ts, src/unnamed/part_002). *)
(* The Engine (python/transcriber.py) is a separate OS process: it is the  *)
(* environment of the model and may end and print a line at any time; the  *)
(* lines a handler writes to its input are recorded per handler.  The      *)
(* file-system calls on the marker file succeed.  SessionSpec follows one  *)
(* Engine that keeps to the protocol, and HistorySpec the transcript       *)
(* lister HistoryManager (electron/history.ts).                            *)
(***************************************************************************)
EXTENDS Integers, Sequences, FiniteSets

(* ------------------------------ bounds -------------------------------- *)
MaxEngines == 2      \* spawns of one Controller run
MaxTimers == 1       \* grace timers pending at once
MaxPipe == 3         \* unread lines in one pipe between Controller and Engine
MaxFiles == 3        \* entries of the transcript directory

(* -------------------------- program constants ------------------------- *)
GracePeriod == 2     \* setTimeout(..., 2000) in stop(), in seconds

Pids == {9, 10}      \* the process ids the operating system hands out
FirstPid == CHOOSE p \in Pids : \A q \in Pids : p <= q
Null == 0            \* this.process === null / currentSession === null
NoPid == 0           \* ChildProcess.pid undefined: the spawn failed
Commands == {"start", "stop", "status", "quit"}

(* ------------------------------ state --------------------------------- *)
VARIABLES
  ctl,               \* Controller process: "boot", "up", "quit" (app.quit() called), "gone"
  marker,            \* the pid file: [exists, text]
  orphans,           \* live processes left behind by an earlier Controller run
  stale,             \* what the marker file referred to when the Controller was launched
  signalled,         \* live processes that have been sent SIGTERM
  eng,               \* the ChildProcess objects this Controller created, in spawn order
  proc,              \* PythonProcess.process: Null or an index of eng
  timers,            \* pending setTimeout callbacks of stop(), in arming order:
                     \* [delay, elapsed, target]
  callbacks,         \* PythonProcess.messageCallback / errorCallback
  isRecording,       \* OhhBrotherApp.isRecording
  currentSession,    \* OhhBrotherApp.currentSession
  recordingDuration, \* OhhBrotherApp.recordingDuration
  awaiting,          \* startRecording is suspended at its await
  op,                \* the handler that ran last
  called,            \* the callbacks that handler invoked
  wrote,             \* the lines that handler wrote to a child's input: [to, line]
  rawLog,            \* the lines that handler printed with console.log("Python stdout:", line)
  engine,            \* the Engine's SessionController: [state, duration]
  stdin,             \* commands written to the Engine and not yet read by it
  stdout,            \* lines printed by the Engine and not yet read by the Controller
  shadow,            \* the coordinator's model in the run that misses one status poll
  dropUsed,          \* that poll has been chosen
  dir,               \* the transcript directory: [readable, entries]
  listed,            \* what getRecentFiles() returned, if it was the last step
  asked,             \* the limit of that call
  purge              \* what deleteOlderThan() did, if it was the last step:
                     \* [deleted, failed], the count returned and the count
                     \* of unlink failures logged

vars == <<ctl, marker, orphans, stale, signalled, eng, proc, timers, callbacks,
          isRecording, currentSession, recordingDuration, awaiting, op, called,
          wrote, rawLog, engine, stdin, stdout, shadow, dropUsed, dir, listed,
          asked, purge>>

coord == <<isRecording, currentSession, recordingDuration>>

\* the variables that only SessionSpec, which follows one Engine through its
\* protocol, keeps track of
session == <<engine, stdin, stdout, shadow, dropUsed>>

\* the variables that only HistorySpec, which follows the transcript directory
\* and the calls of HistoryManager, keeps track of
history == <<dir, listed, asked, purge>>

\* no call of deleteOlderThan() has just returned
NoPurge == [deleted |-> 0, failed |-> 0]

(* --------------------- text of the marker file ------------------------ *)
DigitChars == <<"0", "1", "2", "3", "4", "5", "6", "7", "8", "9">>
IsDigit(c) == \E d \in 1..10 : DigitChars[d] = c
DigitValue(c) == (CHOOSE d \in 1..10 : DigitChars[d] = c) - 1
IsSpace(c) == c \in {" ", "\n"}

\* Number.prototype.toString() of a positive integer, as a sequence of characters
RECURSIVE toString(_)
toString(n) == IF n < 10 THEN <<DigitChars[n + 1]>>
               ELSE toString(n \div 10) \o <<DigitChars[(n % 10) + 1]>>

\* String.prototype.trim()
RECURSIVE TrimLeft(_)
TrimLeft(s) == IF s # <<>> /\ IsSpace(Head(s)) THEN TrimLeft(Tail(s)) ELSE s
RECURSIVE TrimRight(_)
TrimRight(s) == IF s # <<>> /\ IsSpace(s[Len(s)])
                THEN TrimRight(SubSeq(s, 1, Len(s) - 1)) ELSE s
Trim(s) == TrimRight(TrimLeft(s))

\* parseInt(text, 10) of an unsigned text: the value of the longest prefix of
\* digits, NaN when the text does not start with a digit
RECURSIVE DigitsPrefix(_, _)
DigitsPrefix(s, acc) ==
  IF s # <<>> /\ IsDigit(Head(s))
  THEN DigitsPrefix(Tail(s), 10 * acc + DigitValue(Head(s)))
  ELSE acc
ParseInt(s) ==
  LET t == TrimLeft(s) IN
  IF t # <<>> /\ IsDigit(Head(t)) THEN [nan |-> FALSE, val |-> DigitsPrefix(t, 0)]
  ELSE [nan |-> TRUE, val |-> 0]
\* a JavaScript number used as a condition
Truthy(n) == ~n.nan /\ n.val # 0

NoFile == [exists |-> FALSE, text |-> <<>>]
File(text) == [exists |-> TRUE, text |-> text]

(* ------------------------- operating system --------------------------- *)
EngineIds == 1 .. Len(eng)
Live == orphans \cup {eng[e].pid : e \in {x \in EngineIds : eng[x].alive}}

\* process.kill(pid, "SIGTERM"): throws when no such process exists
KillThrows(pid) == pid \notin Live
\* the processes signalled after a successful process.kill(pid, "SIGTERM")
Kill(pid) == signalled \cup {pid}

(* ------------------- PythonProcess: the supervisor -------------------- *)
\* fs.writeFileSync(pidFile, pid.toString()): the marker after the call
writePidFile(pid) == File(toString(pid))

\* if (fs.existsSync(pidFile)) fs.unlinkSync(pidFile): the marker after the call
removePidFile == NoFile

isRunning == proc # Null

\* JSON.stringify({command: c}) + "\n"
Encode(c) == <<"{", "\"command\"", ":", "\"" \o c \o "\"", "}", "\n">>

\* a ChildProcess whose last event has been handled: nothing refers to it any
\* more, and its record is reset
Gone == [pid |-> NoPid, alive |-> FALSE, exitPending |-> FALSE,
         errPending |-> FALSE, hasStdin |-> FALSE]

\* the ChildProcess objects spawn() may return: a running Engine with a fresh
\* pid and its three pipes, or, when the spawn fails, an object without a pid
\* whose "error" event is still to come
SpawnResults ==
  {[pid |-> p, alive |-> TRUE, exitPending |-> FALSE, errPending |-> FALSE,
    hasStdin |-> TRUE] : p \in Pids \ Live}
  \cup
  {[pid |-> NoPid, alive |-> FALSE, exitPending |-> FALSE, errPending |-> TRUE,
    hasStdin |-> b] : b \in BOOLEAN}

\* cleanupOrphanedProcess() that removes the marker without signalling
cleanupOnlyUnlinks ==
  IF marker.exists
  THEN marker' = NoFile /\ UNCHANGED signalled
  ELSE UNCHANGED <<marker, signalled>>

\* cleanupOrphanedProcess() without the inner try: the exception of
\* process.kill() reaches the outer catch and skips the unlink
cleanupKillUncaught ==
  IF marker.exists
  THEN LET pid == ParseInt(Trim(marker.text)) IN
       IF Truthy(pid) /\ KillThrows(pid.val)
       THEN UNCHANGED <<marker, signalled>>
       ELSE /\ signalled' = IF Truthy(pid) THEN Kill(pid.val) ELSE signalled
            /\ marker' = NoFile
  ELSE UNCHANGED <<marker, signalled>>

\* cleanupOrphanedProcess(), called by the constructor
cleanupOrphanedProcess ==
  IF marker.exists
  THEN LET pid == ParseInt(Trim(marker.text)) IN
       /\ signalled' = IF Truthy(pid) /\ ~KillThrows(pid.val)
                       THEN Kill(pid.val) ELSE signalled
       /\ marker' = NoFile
  ELSE UNCHANGED <<marker, signalled>>

\* start() that does not write the marker file
startForgetsMarker ==
  IF proc # Null
  THEN UNCHANGED <<proc, eng, marker>>
  ELSE /\ Len(eng) < MaxEngines
       /\ \E child \in SpawnResults :
            /\ eng' = Append(eng, child)
            /\ proc' = Len(eng) + 1
            /\ UNCHANGED marker

\* start() without its early return
startRespawn ==
  /\ Len(eng) < MaxEngines
  /\ \E child \in SpawnResults :
       /\ eng' = Append(eng, child)
       /\ proc' = Len(eng) + 1
       /\ marker' = IF child.pid # NoPid THEN writePidFile(child.pid)
                    ELSE marker

\* start(): the new values of process, the children and the marker
start ==
  IF proc # Null
  THEN UNCHANGED <<proc, eng, marker>>
  ELSE /\ Len(eng) < MaxEngines
       /\ \E child \in SpawnResults :
            /\ eng' = Append(eng, child)
            /\ proc' = Len(eng) + 1
            /\ marker' = IF child.pid # NoPid THEN writePidFile(child.pid)
                         ELSE marker

\* send() that writes to the child spawned last, whatever the handle says
sendToLast(w, c) ==
  IF eng # <<>> /\ eng[Len(eng)].hasStdin
  THEN Append(w, [to |-> Len(eng), line |-> Encode(c)])
  ELSE w

\* send(msg): the lines written by the running handler, given those (w) it
\* wrote before the call
send(w, c) ==
  IF proc # Null /\ eng[proc].hasStdin
  THEN Append(w, [to |-> proc, line |-> Encode(c)])
  ELSE w

\* the setTimeout of stop(): delay and the time elapsed since it was armed;
\* target records the child that stop() was called on, which the callback
\* itself does not keep
GraceTimer == [delay |-> GracePeriod, elapsed |-> 0, target |-> proc]

\* stop() whose timer is armed without a delay
stopWithoutGrace(w) ==
  IF proc # Null
  THEN /\ Len(timers) < MaxTimers
       /\ wrote' = send(w, "quit")
       /\ timers' = Append(timers, [GraceTimer EXCEPT !.delay = 0])
  ELSE /\ wrote' = w
       /\ UNCHANGED timers

\* stop(), given the lines w the running handler wrote before the call
stop(w) ==
  IF proc # Null
  THEN /\ Len(timers) < MaxTimers
       /\ wrote' = send(w, "quit")
       /\ timers' = Append(timers, GraceTimer)
  ELSE /\ wrote' = w
       /\ UNCHANGED timers

\* ChildProcess.kill("SIGTERM") on child e: a signal goes out only to a child
\* that is still running
ChildKill(e) ==
  IF eng[e].alive THEN Kill(eng[e].pid) ELSE signalled

\* a timer callback that signals the child and leaves the rest to its exit
onGraceTimeoutKillOnly ==
  /\ signalled' = IF proc # Null THEN ChildKill(proc) ELSE signalled
  /\ UNCHANGED <<proc, marker>>

\* the callback of stop()'s setTimeout
onGraceTimeout ==
  /\ signalled' = IF proc # Null THEN ChildKill(proc) ELSE signalled
  /\ proc' = Null
  /\ marker' = removePidFile

\* an exit handler that forgets the marker file
onExitKeepsMarker(e) ==
  /\ called' = {}
  /\ proc' = Null
  /\ UNCHANGED marker

\* this.process.on("exit", ...) of child e
onExit(e) ==
  /\ called' = {}
  /\ proc' = Null
  /\ marker' = removePidFile

\* this.process.on("error", ...) of child e
onProcessError(e) ==
  /\ called' = IF callbacks.error # "null" THEN {"onError"} ELSE {}
  /\ proc' = Null
  /\ marker' = removePidFile

(* ------------------- OhhBrotherApp: the coordinator ------------------- *)
Sessions == {1}      \* the session tokens an Engine reports
Durations == {0, 1}  \* the durations an Engine reports
Messages ==
  {[type |-> t] : t \in {"ready", "stopped", "transcript", "error", "saved"}}
  \cup {[type |-> "status", recording |-> r, duration |-> d] :
          r \in BOOLEAN, d \in Durations}
  \cup {[type |-> "started", session |-> n] : n \in Sessions}

\* JSON.parse("null"): a value without properties
JsonNull == [null |-> TRUE]

\* the lines an Engine may print: a message as one line of JSON, the JSON text
\* null, a message cut short, or other text
Lines == {[json |-> TRUE, msg |-> m] : m \in Messages}
         \cup {[json |-> TRUE, msg |-> JsonNull]}
         \cup {[json |-> FALSE, msg |-> [type |-> t]] : t \in {"cut", "text"}}

\* the coordinator's recording model as one value
Model == [isRecording |-> isRecording, currentSession |-> currentSession,
          recordingDuration |-> recordingDuration]

\* an onMessage callback whose stopped case forgets recordingDuration
handleMessageStoppedKeepsDuration(m, msg) ==
  CASE msg.type = "status" ->
         [m EXCEPT !.isRecording = msg.recording,
                   !.recordingDuration = msg.duration]
    [] msg.type = "started" ->
         [m EXCEPT !.isRecording = TRUE, !.currentSession = msg.session]
    [] msg.type = "stopped" ->
         [m EXCEPT !.isRecording = FALSE, !.currentSession = Null]
    [] OTHER -> m

\* an onMessage callback whose status case is a copy of its stopped case
handleMessageStatusResets(m, msg) ==
  CASE msg.type = "status" ->
         [isRecording |-> msg.recording, currentSession |-> Null,
          recordingDuration |-> 0]
    [] msg.type = "started" ->
         [m EXCEPT !.isRecording = TRUE, !.currentSession = msg.session]
    [] msg.type = "stopped" ->
         [isRecording |-> FALSE, currentSession |-> Null, recordingDuration |-> 0]
    [] OTHER -> m

\* the switch of the onMessage callback: the model after msg, given the model m
\* before it
handleMessage(m, msg) ==
  CASE msg.type = "status" ->
         [m EXCEPT !.isRecording = msg.recording,
                   !.recordingDuration = msg.duration]    \* msg.duration || 0
    [] msg.type = "started" ->
         [m EXCEPT !.isRecording = TRUE, !.currentSession = msg.session]
    [] msg.type = "stopped" ->
         [isRecording |-> FALSE, currentSession |-> Null, recordingDuration |-> 0]
    [] OTHER -> m

\* the callback setupPythonCallbacks() registers with onMessage()
coordinatorOnMessage(msg) ==
  /\ isRecording' = handleMessage(Model, msg).isRecording
  /\ currentSession' = handleMessage(Model, msg).currentSession
  /\ recordingDuration' = handleMessage(Model, msg).recordingDuration

\* the callback setupPythonCallbacks() registers with onError(): console.error
coordinatorOnError == UNCHANGED coord

\* a line reader that hands every line to messageCallback unparsed
onLineUnparsed(line) ==
  /\ called' = IF callbacks.message # "null" THEN {"onMessage"} ELSE {}
  /\ rawLog' = <<>>
  /\ IF callbacks.message = "coordinator" /\ line.json /\ line.msg # JsonNull
     THEN coordinatorOnMessage(line.msg) ELSE UNCHANGED coord

\* rl.on("line", ...): parse the line and hand the message to messageCallback;
\* an exception of JSON.parse or of the callback (msg.type of null) is caught
\* and the line is printed
onLine(line) ==
  IF ~line.json
  THEN /\ called' = {}
       /\ rawLog' = <<line>>
       /\ UNCHANGED coord
  ELSE /\ called' = IF callbacks.message # "null" THEN {"onMessage"} ELSE {}
       /\ IF callbacks.message = "coordinator"
          THEN IF line.msg = JsonNull
               THEN rawLog' = <<line>> /\ UNCHANGED coord
               ELSE rawLog' = <<>> /\ coordinatorOnMessage(line.msg)
          ELSE rawLog' = <<>> /\ UNCHANGED coord

(* ----------------------------- actions -------------------------------- *)
\* the Controller's event loop is running
Running == ctl \in {"up", "quit"}
\* the event loop can run its next task: startRecording() is not suspended at
\* its await, and no "error" event of a failed spawn, which is emitted with
\* process.nextTick, is waiting
Idle == Running /\ ~awaiting /\ \A e \in EngineIds : ~eng[e].errPending
Did(name) == op' = [name |-> name, running |-> isRunning]

\* OhhBrotherApp.start() -> init(): new PythonProcess(...), setupPythonCallbacks()
Launch ==
  /\ ctl = "boot"
  /\ ctl' = "up"
  /\ cleanupOrphanedProcess
  /\ callbacks' = [message |-> "coordinator", error |-> "coordinator"]
  /\ Did("init") /\ called' = {} /\ wrote' = <<>>
  /\ UNCHANGED <<orphans, stale, eng, proc, timers, coord, awaiting>>
  /\ rawLog' = <<>>
  /\ UNCHANGED <<session, history>>

\* startRecording() without its isRecording guard
StartRecordingUnguarded ==
  /\ ctl = "up" /\ Idle
  /\ start /\ awaiting' = TRUE
  /\ Did("startRecording") /\ called' = {} /\ wrote' = <<>>
  /\ UNCHANGED <<ctl, orphans, stale, signalled, timers, callbacks, coord>>
  /\ rawLog' = <<>>
  /\ UNCHANGED <<session, history>>

\* menu click: startRecording(), up to its await
StartRecording ==
  /\ ctl = "up" /\ Idle
  /\ IF isRecording
     THEN UNCHANGED <<proc, eng, marker, awaiting>>
     ELSE start /\ awaiting' = TRUE
  /\ Did("startRecording") /\ called' = {} /\ wrote' = <<>>
  /\ UNCHANGED <<ctl, orphans, stale, signalled, timers, callbacks, coord>>
  /\ rawLog' = <<>>
  /\ UNCHANGED <<session, history>>

\* startRecording() after its await: send({command: "start"})
StartRecordingResume ==
  /\ Running /\ awaiting
  /\ wrote' = send(<<>>, "start")
  /\ awaiting' = FALSE
  /\ Did("resume") /\ called' = {}
  /\ UNCHANGED <<ctl, marker, orphans, stale, signalled, eng, proc, timers, callbacks,
                 coord>>
  /\ rawLog' = <<>>
  /\ UNCHANGED <<session, history>>

\* menu click: stopRecording()
StopRecording ==
  /\ ctl = "up" /\ Idle
  /\ wrote' = IF isRecording THEN send(<<>>, "stop") ELSE <<>>
  /\ Did("stopRecording") /\ called' = {}
  /\ UNCHANGED <<ctl, marker, orphans, stale, signalled, eng, proc, timers, callbacks,
                 coord, awaiting>>
  /\ rawLog' = <<>>
  /\ UNCHANGED <<session, history>>

\* an interval callback that restarts a missing Engine while recording
PollTickRestarts ==
  /\ Idle
  /\ IF isRecording /\ ~isRunning
     THEN start /\ wrote' = <<>>
     ELSE /\ wrote' = IF isRecording THEN send(<<>>, "status") ELSE <<>>
          /\ UNCHANGED <<marker, eng, proc>>
  /\ Did("poll") /\ called' = {}
  /\ UNCHANGED <<ctl, orphans, stale, signalled, timers, callbacks, coord, awaiting>>
  /\ rawLog' = <<>>
  /\ UNCHANGED <<session, history>>

\* the setInterval of OhhBrotherApp.start()
PollTick ==
  /\ Idle
  /\ wrote' = IF isRecording THEN send(<<>>, "status") ELSE <<>>
  /\ Did("poll") /\ called' = {}
  /\ UNCHANGED <<ctl, marker, orphans, stale, signalled, eng, proc, timers, callbacks,
                 coord, awaiting>>
  /\ rawLog' = <<>>
  /\ UNCHANGED <<session, history>>

\* menu click: quit()
Quit ==
  /\ ctl = "up" /\ Idle
  /\ stop(IF isRecording THEN send(<<>>, "stop") ELSE <<>>)
  /\ ctl' = "quit"
  /\ Did("quit") /\ called' = {}
  /\ UNCHANGED <<marker, orphans, stale, signalled, eng, proc, callbacks, coord, awaiting>>
  /\ rawLog' = <<>>
  /\ UNCHANGED <<session, history>>

\* app.quit() takes effect: the Controller process ends, its timers with it
AppExit ==
  /\ ctl = "quit"
  /\ ctl' = "gone"
  /\ timers' = <<>>
  /\ Did("gone") /\ called' = {} /\ wrote' = <<>>
  /\ UNCHANGED <<marker, orphans, stale, signalled, eng, proc, callbacks, coord,
                 awaiting>>
  /\ rawLog' = <<>>
  /\ UNCHANGED <<session, history>>

\* the output pipes of child e deliver data until its exit has been handled
StdioOpen(e) == eng[e].alive \/ eng[e].exitPending

\* the "exit" event of child e is handled
ExitEvent(e) ==
  /\ Idle
  /\ eng[e].exitPending
  /\ eng' = [eng EXCEPT ![e] = Gone]
  /\ onExit(e)
  /\ Did("exit") /\ wrote' = <<>>
  /\ UNCHANGED <<ctl, orphans, stale, signalled, timers, callbacks, coord, awaiting>>
  /\ rawLog' = <<>>
  /\ UNCHANGED <<session, history>>

\* the "error" event of child e is handled; it is emitted on the next tick
\* after a failed spawn, so it may run before startRecording() resumes
ErrorEvent(e) ==
  /\ Running
  /\ eng[e].errPending
  /\ eng' = [eng EXCEPT ![e] = Gone]
  /\ onProcessError(e)
  /\ coordinatorOnError
  /\ Did("error") /\ wrote' = <<>>
  /\ UNCHANGED <<ctl, orphans, stale, signalled, timers, callbacks, awaiting>>
  /\ rawLog' = <<>>
  /\ UNCHANGED <<session, history>>

\* the oldest grace timer expires
TimerFire ==
  /\ Idle
  /\ timers # <<>>
  /\ Head(timers).elapsed >= Head(timers).delay
  /\ timers' = Tail(timers)
  /\ onGraceTimeout
  /\ Did("timer") /\ called' = {} /\ wrote' = <<>>
  /\ UNCHANGED <<ctl, orphans, stale, eng, callbacks, coord, awaiting>>
  /\ rawLog' = <<>>
  /\ UNCHANGED <<session, history>>

\* a line of child e's standard output is read
OnLine(e, line) ==
  /\ Idle
  /\ StdioOpen(e)
  /\ onLine(line)
  /\ Did("line") /\ wrote' = <<>>
  /\ UNCHANGED <<ctl, marker, orphans, stale, signalled, eng, proc, timers, callbacks,
                 awaiting>>
  /\ UNCHANGED <<session, history>>

\* data arrives on child e's standard error: errorCallback?.(text)
StderrData(e) ==
  /\ Idle
  /\ StdioOpen(e)
  /\ called' = IF callbacks.error # "null" THEN {"onError"} ELSE {}
  /\ coordinatorOnError
  /\ Did("stderr") /\ wrote' = <<>>
  /\ UNCHANGED <<ctl, marker, orphans, stale, signalled, eng, proc, timers, callbacks,
                 awaiting>>
  /\ rawLog' = <<>>
  /\ UNCHANGED <<session, history>>

(* --------------------------- environment ------------------------------ *)
Env ==
  /\ op' = [name |-> "env", running |-> isRunning]
  /\ called' = {} /\ wrote' = <<>> /\ rawLog' = <<>>

\* one second passes
Tick ==
  /\ \E i \in DOMAIN timers : timers[i].elapsed < timers[i].delay
  /\ timers' = [i \in DOMAIN timers |->
                  IF timers[i].elapsed < timers[i].delay
                  THEN [timers[i] EXCEPT !.elapsed = @ + 1] ELSE timers[i]]
  /\ Env
  /\ UNCHANGED <<ctl, marker, orphans, stale, signalled, eng, proc, callbacks, coord,
                 awaiting>>
  /\ UNCHANGED <<session, history>>

\* Engine e ends: on quit, on a signal or by crashing
EngineDies(e) ==
  /\ eng[e].alive
  /\ eng' = [eng EXCEPT ![e].alive = FALSE, ![e].exitPending = TRUE]
  /\ signalled' = signalled \ {eng[e].pid}
  /\ Env
  /\ UNCHANGED <<ctl, marker, orphans, stale, proc, timers, callbacks, coord, awaiting>>
  /\ UNCHANGED <<session, history>>

\* a process left by an earlier Controller run ends (Init is the moment of the
\* launch: a process that ended before it is not in orphans)
OrphanDies(p) ==
  /\ ctl # "boot"
  /\ p \in orphans
  /\ orphans' = orphans \ {p}
  /\ signalled' = signalled \ {p}
  /\ Env
  /\ UNCHANGED <<ctl, marker, stale, eng, proc, timers, callbacks, coord, awaiting>>
  /\ UNCHANGED <<session, history>>

(* ------------------------- specifications ----------------------------- *)
\* what an earlier Controller run may have left in the marker file
InitialMarkers ==
  {NoFile, File(<<>>), File(<<"x">>)}
  \cup {File(toString(p)) : p \in Pids}
  \cup {File(toString(p) \o <<"\n">>) : p \in Pids}

\* what marker file m refers to when the processes in live are running; an
\* earlier run leaves a process behind only with a marker file that names it
Refers(m, live) ==
  LET pid == ParseInt(Trim(m.text)) IN
  IF ~m.exists THEN IF live = {} THEN "nofile" ELSE "unmarked"
  ELSE IF ~Truthy(pid) THEN IF live = {} THEN "unparsable" ELSE "unmarked"
  ELSE IF pid.val \in live THEN "live"
  ELSE IF live = {} THEN "dead" ELSE "unmarked"

Init ==
  /\ ctl = "boot"
  /\ marker \in InitialMarkers
  /\ orphans \in {{}, {FirstPid}}
  /\ Refers(marker, orphans) \in {"nofile", "unparsable", "dead", "live"}
  /\ stale = Refers(marker, orphans)
  /\ signalled = {}
  /\ eng = <<>>
  /\ proc = Null
  /\ timers = <<>>
  /\ callbacks = [message |-> "null", error |-> "null"]
  /\ isRecording = FALSE
  /\ currentSession = Null
  /\ recordingDuration = 0
  /\ awaiting = FALSE
  /\ op = [name |-> "none", running |-> FALSE]
  /\ called = {}
  /\ wrote = <<>>
  /\ rawLog = <<>>
  /\ engine = [state |-> "Idle", duration |-> 0]
  /\ stdin = <<>>
  /\ stdout = <<>>
  /\ shadow = Model
  /\ dropUsed = FALSE
  /\ dir = [readable |-> TRUE, entries |-> <<>>]
  /\ listed = <<>>
  /\ asked = 0
  /\ purge = NoPurge

Environment ==
  \/ Tick
  \/ \E e \in EngineIds : EngineDies(e)
  \/ \E p \in Pids : OrphanDies(p)

Events ==
  \/ \E e \in EngineIds : ExitEvent(e)
  \/ \E e \in EngineIds : ErrorEvent(e)
  \/ TimerFire
  \/ \E e \in EngineIds, line \in Lines : OnLine(e, line)
  \/ \E e \in EngineIds : StderrData(e)

\* the application: the coordinator drives the supervisor
Next ==
  \/ Launch
  \/ StartRecording
  \/ StartRecordingResume
  \/ StopRecording
  \/ PollTick
  \/ Quit
  \/ AppExit
  \/ Events
  \/ Environment

Spec == Init /\ [][Next]_vars

(* --------- the supervisor alone, driven by an arbitrary client --------- *)
(* The client registers no callbacks: messageCallback and errorCallback    *)
(* stay null.                                                              *)
\* new PythonProcess(pythonDir, outputDir)
Construct ==
  /\ ctl = "boot"
  /\ ctl' = "up"
  /\ cleanupOrphanedProcess
  /\ Did("construct") /\ called' = {} /\ wrote' = <<>>
  /\ UNCHANGED <<orphans, stale, eng, proc, timers, callbacks, coord, awaiting>>
  /\ rawLog' = <<>>
  /\ UNCHANGED <<session, history>>

\* a call of start()
CallStart ==
  /\ ctl = "up"
  /\ start
  /\ Did("start") /\ called' = {} /\ wrote' = <<>>
  /\ UNCHANGED <<ctl, orphans, stale, signalled, timers, callbacks, coord, awaiting>>
  /\ rawLog' = <<>>
  /\ UNCHANGED <<session, history>>

\* a call of send({command: c})
CallSend(c) ==
  /\ ctl = "up"
  /\ wrote' = send(<<>>, c)
  /\ Did("send") /\ called' = {}
  /\ UNCHANGED <<ctl, marker, orphans, stale, signalled, eng, proc, timers, callbacks,
                 coord, awaiting>>
  /\ rawLog' = <<>>
  /\ UNCHANGED <<session, history>>

\* a call of stop()
CallStop ==
  /\ ctl = "up"
  /\ stop(<<>>)
  /\ Did("stop") /\ called' = {}
  /\ UNCHANGED <<ctl, marker, orphans, stale, signalled, eng, proc, callbacks, coord,
                 awaiting>>
  /\ rawLog' = <<>>
  /\ UNCHANGED <<session, history>>

SupervisorNext ==
  \/ Construct
  \/ CallStart
  \/ \E c \in Commands : CallSend(c)
  \/ CallStop
  \/ Events
  \/ Environment

SupervisorSpec == Init /\ [][SupervisorNext]_vars

\* time passes, and the event loop runs every pending "error" event and every
\* timer that is due
FairSupervisorSpec ==
  /\ SupervisorSpec
  /\ WF_vars(Tick)
  /\ WF_vars(\E e \in EngineIds : ErrorEvent(e))
  /\ WF_vars(TimerFire)

(* ------------- one Engine that follows the protocol -------------------- *)
(* The coordinator with a running Engine whose SessionController handles   *)
(* one command at a time.  A second run, which differs in that one status  *)
(* poll and its reply are missing, is followed in shadow: the commands and *)
(* lines of that poll are marked skip, and the shadow does not see them.   *)
\* the command of a line written by send()
Decode(line) == CHOOSE c \in Commands : Encode(c) = line

\* the lines of wrote' reach the Engine's input
Piped(skip) ==
  /\ Len(stdin) + Len(wrote') <= MaxPipe
  /\ stdin' = stdin \o [i \in DOMAIN wrote' |->
                          [cmd |-> Decode(wrote'[i].line), skip |-> skip]]

\* startRecording() up to its await; start() returns at once on a held handle
SessionStartRecording ==
  /\ ctl = "up" /\ Idle /\ isRunning
  /\ awaiting' = ~isRecording
  /\ Did("startRecording") /\ called' = {} /\ wrote' = <<>> /\ rawLog' = <<>>
  /\ UNCHANGED <<ctl, marker, orphans, stale, signalled, eng, proc, timers,
                 callbacks, coord, session>>
  /\ UNCHANGED history

\* startRecording() after its await
SessionResume ==
  /\ Running /\ awaiting
  /\ wrote' = send(<<>>, "start")
  /\ Piped(FALSE)
  /\ awaiting' = FALSE
  /\ Did("resume") /\ called' = {} /\ rawLog' = <<>>
  /\ UNCHANGED <<ctl, marker, orphans, stale, signalled, eng, proc, timers,
                 callbacks, coord, engine, stdout, shadow, dropUsed>>
  /\ UNCHANGED history

\* stopRecording()
SessionStopRecording ==
  /\ ctl = "up" /\ Idle
  /\ wrote' = IF isRecording THEN send(<<>>, "stop") ELSE <<>>
  /\ Piped(FALSE)
  /\ Did("stopRecording") /\ called' = {} /\ rawLog' = <<>>
  /\ UNCHANGED <<ctl, marker, orphans, stale, signalled, eng, proc, timers,
                 callbacks, coord, awaiting, engine, stdout, shadow, dropUsed>>
  /\ UNCHANGED history

\* an interval callback that polls whatever the model says
SessionPollTickAlways ==
  /\ Idle
  /\ wrote' = send(<<>>, "status")
  /\ \E skip \in (IF dropUsed THEN {FALSE} ELSE BOOLEAN) :
       /\ Piped(skip)
       /\ dropUsed' = (dropUsed \/ skip)
  /\ Did("poll") /\ called' = {} /\ rawLog' = <<>>
  /\ UNCHANGED <<ctl, marker, orphans, stale, signalled, eng, proc, timers,
                 callbacks, coord, awaiting, engine, stdout, shadow>>
  /\ UNCHANGED history

\* the interval callback; the other run may miss this tick
SessionPollTick ==
  /\ Idle
  /\ wrote' = IF isRecording THEN send(<<>>, "status") ELSE <<>>
  /\ \E skip \in (IF dropUsed \/ wrote' = <<>> THEN {FALSE} ELSE BOOLEAN) :
       /\ Piped(skip)
       /\ dropUsed' = (dropUsed \/ skip)
  /\ Did("poll") /\ called' = {} /\ rawLog' = <<>>
  /\ UNCHANGED <<ctl, marker, orphans, stale, signalled, eng, proc, timers,
                 callbacks, coord, awaiting, engine, stdout, shadow>>
  /\ UNCHANGED history

\* the Controller reads the next line of the Engine's output
SessionOnLine ==
  /\ Idle /\ isRunning /\ StdioOpen(proc)
  /\ stdout # <<>>
  /\ onLine(Head(stdout).line)
  /\ shadow' = IF Head(stdout).skip THEN shadow
               ELSE handleMessage(shadow, Head(stdout).line.msg)
  /\ stdout' = Tail(stdout)
  /\ Did("line") /\ wrote' = <<>>
  /\ UNCHANGED <<ctl, marker, orphans, stale, signalled, eng, proc, timers,
                 callbacks, awaiting, engine, stdin, dropUsed>>
  /\ UNCHANGED history

\* the lines the Engine prints for the events evs
Printed(evs, skip) ==
  [i \in DOMAIN evs |-> [line |-> [json |-> TRUE, msg |-> evs[i]], skip |-> skip]]

\* the SessionController's answer to command c: its next state and its events
Answer(c) ==
  CASE c = "start" /\ engine.state = "Idle" ->
         [engine |-> [state |-> "Recording", duration |-> 0],
          events |-> <<[type |-> "started",
                        session |-> CHOOSE n \in Sessions : TRUE]>>]
    [] c = "stop" /\ engine.state = "Recording" ->
         [engine |-> [engine EXCEPT !.state = "Idle"],
          events |-> <<[type |-> "saved"], [type |-> "stopped"]>>]
    [] c = "status" ->
         [engine |-> engine,
          events |-> <<[type |-> "status",
                        recording |-> engine.state = "Recording",
                        duration |-> engine.duration]>>]
    [] OTHER -> [engine |-> engine, events |-> <<>>]

\* the Engine reads a command and handles it
EngineHandles ==
  /\ stdin # <<>>
  /\ Head(stdin).cmd # "quit"
  /\ LET a == Answer(Head(stdin).cmd) IN
       /\ Len(stdout) + Len(a.events) <= MaxPipe
       /\ engine' = a.engine
       /\ stdout' = stdout \o Printed(a.events, Head(stdin).skip)
  /\ stdin' = Tail(stdin)
  /\ Env
  /\ UNCHANGED <<ctl, marker, orphans, stale, signalled, eng, proc, timers,
                 callbacks, coord, awaiting, shadow, dropUsed>>
  /\ UNCHANGED history

\* a second of the session passes in the Engine
EngineClock ==
  /\ engine.state = "Recording"
  /\ engine.duration + 1 \in Durations
  /\ engine' = [engine EXCEPT !.duration = @ + 1]
  /\ Env
  /\ UNCHANGED <<ctl, marker, orphans, stale, signalled, eng, proc, timers,
                 callbacks, coord, awaiting, stdin, stdout, shadow, dropUsed>>
  /\ UNCHANGED history

\* the microphone fails: error, then the flush of stop, and back to Idle
EngineDeviceFailure ==
  /\ engine.state = "Recording"
  /\ Len(stdout) + 3 <= MaxPipe
  /\ engine' = [engine EXCEPT !.state = "Idle"]
  /\ stdout' = stdout \o Printed(<<[type |-> "error"], [type |-> "saved"],
                                    [type |-> "stopped"]>>, FALSE)
  /\ Env
  /\ UNCHANGED <<ctl, marker, orphans, stale, signalled, eng, proc, timers,
                 callbacks, coord, awaiting, stdin, shadow, dropUsed>>
  /\ UNCHANGED history

\* the Controller right after its first startRecording(): the Engine has been
\* spawned and the start command is in its input
SessionInit ==
  /\ ctl = "up"
  /\ marker = writePidFile(FirstPid)
  /\ orphans = {} /\ stale = "nofile" /\ signalled = {}
  /\ eng = <<[pid |-> FirstPid, alive |-> TRUE, exitPending |-> FALSE,
              errPending |-> FALSE, hasStdin |-> TRUE]>>
  /\ proc = 1
  /\ timers = <<>>
  /\ callbacks = [message |-> "coordinator", error |-> "coordinator"]
  /\ isRecording = FALSE /\ currentSession = Null /\ recordingDuration = 0
  /\ awaiting = FALSE
  /\ op = [name |-> "resume", running |-> TRUE]
  /\ called = {}
  /\ wrote = <<[to |-> 1, line |-> Encode("start")]>>
  /\ rawLog = <<>>
  /\ engine = [state |-> "Idle", duration |-> 0]
  /\ stdin = <<[cmd |-> "start", skip |-> FALSE]>>
  /\ stdout = <<>>
  /\ shadow = Model
  /\ dropUsed = FALSE
  /\ dir = [readable |-> TRUE, entries |-> <<>>]
  /\ listed = <<>>
  /\ asked = 0
  /\ purge = NoPurge

SessionNext ==
  \/ SessionStartRecording
  \/ SessionResume
  \/ SessionStopRecording
  \/ SessionPollTick
  \/ SessionOnLine
  \/ EngineHandles
  \/ EngineClock
  \/ EngineDeviceFailure

SessionSpec == SessionInit /\ [][SessionNext]_vars

(* ------------- HistoryManager: the transcript lister ------------------- *)
(* A descriptor is modelled by its name and its date; times are minutes.   *)
\* the variables of the supervisor and the coordinator
supervision == <<ctl, marker, orphans, stale, signalled, eng, proc, timers,
                 callbacks, coord, awaiting>>

MdExt == <<".", "m", "d">>
\* a number written with at least two digits
Pad2(n) == IF n < 10 THEN <<"0">> \o toString(n) ELSE toString(n)

\* the name of the transcript of a session started at t: YYYY-MM-DD_HH-MM.md
StampName(t) ==
  toString(t.y) \o <<"-">> \o Pad2(t.mo) \o <<"-">> \o Pad2(t.d) \o <<"_">>
    \o Pad2(t.h) \o <<"-">> \o Pad2(t.mi) \o MdExt

\* the start times of the sessions on disk
Stamps ==
  {[y |-> 2024, mo |-> 1, d |-> 2, h |-> 3, mi |-> 4],
   [y |-> 2023, mo |-> 12, d |-> 31, h |-> 23, mi |-> 59]}
FirstStamp == [y |-> 2024, mo |-> 1, d |-> 2, h |-> 3, mi |-> 4]

\* new Date(y, mo - 1, d, h, mi).getTime() for a date of the calendar, in
\* minutes, counted with months of 31 days: later dates have larger values
DateValue(y, mo, d, h, mi) ==
  ((((y * 12 + (mo - 1)) * 31 + (d - 1)) * 24 + h) * 60 + mi)

\* the names of the entries a transcript directory may hold
Names ==
  {StampName(t) : t \in Stamps}
  \cup {<<"x">> \o StampName(FirstStamp),
        StampName(FirstStamp) \o <<".", "b", "a", "k">>,
        <<"n", "o", "t", "e", "s", ".", "m", "d">>,
        <<"2", "0", "2", "4", "-", "1", "-", "2", "_", "3", "-", "4", ".", "m", "d">>}

\* the modification times of the entries
Mtimes == {DateValue(2024, 1, 2, 3, 4), DateValue(2024, 1, 2, 3, 6)}

\* String.prototype.endsWith
endsWith(name, ext) ==
  /\ Len(name) >= Len(ext)
  /\ SubSeq(name, Len(name) - Len(ext) + 1, Len(name)) = ext

\* /(\d{4})-(\d{2})-(\d{2})_(\d{2})-(\d{2})\.md/
Pattern ==
  <<"\\d", "\\d", "\\d", "\\d", "-", "\\d", "\\d", "-", "\\d", "\\d", "_",
    "\\d", "\\d", "-", "\\d", "\\d", ".", "m", "d">>

\* the pattern matches the characters of name that start at position i
MatchesAt(name, i) ==
  /\ i + Len(Pattern) - 1 <= Len(name)
  /\ \A k \in 1 .. Len(Pattern) :
       IF Pattern[k] = "\\d" THEN IsDigit(name[i + k - 1])
       ELSE name[i + k - 1] = Pattern[k]

\* name.match(pattern): the position of the leftmost match, if there is one
match(name) ==
  LET at == {i \in 1 .. Len(name) : MatchesAt(name, i)} IN
  IF at = {} THEN [found |-> FALSE, at |-> 0]
  ELSE [found |-> TRUE, at |-> CHOOSE i \in at : \A j \in at : i <= j]

\* parseInt(match[n]) of the group at offsets from..to of the match at i
Group(name, i, from, to) == ParseInt(SubSeq(name, i + from, i + to)).val

\* the date of a descriptor: parsed from the name, else stat.mtime
fileDate(f) ==
  LET m == match(f.name) IN
  IF m.found
  THEN DateValue(Group(f.name, m.at, 0, 3), Group(f.name, m.at, 5, 6),
                 Group(f.name, m.at, 8, 9), Group(f.name, m.at, 11, 12),
                 Group(f.name, m.at, 14, 15))
  ELSE f.mtime

\* Array.prototype.sort((a, b) => b.date.getTime() - a.date.getTime()): a
\* stable sort, most recent first
RECURSIVE Insert(_, _)
Insert(sorted, x) ==
  IF sorted = <<>> THEN <<x>>
  ELSE IF Head(sorted).date >= x.date
       THEN <<Head(sorted)>> \o Insert(Tail(sorted), x)
       ELSE <<x>> \o sorted
RECURSIVE sort(_)
sort(files) ==
  IF files = <<>> THEN <<>>
  ELSE Insert(sort(SubSeq(files, 1, Len(files) - 1)), files[Len(files)])

\* Array.prototype.slice(0, limit) for limit >= 0
slice(files, limit) ==
  SubSeq(files, 1, IF limit < Len(files) THEN limit ELSE Len(files))

\* the .md entries of the directory, in the order of readdirSync
mdFiles == SelectSeq(dir.entries, LAMBDA f : endsWith(f.name, MdExt))
describe(files) ==
  [i \in DOMAIN files |-> [name |-> files[i].name, date |-> fileDate(files[i])]]

\* getRecentFiles() that cuts the list before it sorts it
getRecentFilesCutFirst(limit) ==
  IF ~dir.readable \/ \E i \in DOMAIN mdFiles : ~mdFiles[i].statOk
  THEN <<>>
  ELSE sort(slice(describe(mdFiles), limit))

\* getRecentFiles(limit); an exception of readdirSync or statSync is caught
getRecentFiles(limit) ==
  IF ~dir.readable \/ \E i \in DOMAIN mdFiles : ~mdFiles[i].statOk
  THEN <<>>
  ELSE slice(sort(describe(mdFiles)), limit)

\* the limits getRecentFiles() is called with
Limits == {0, 1, 2, 10}

\* a call of getRecentFiles(limit)
GetRecentFiles(limit) ==
  /\ ctl = "up"
  /\ listed' = getRecentFiles(limit)
  /\ asked' = limit
  /\ purge' = NoPurge
  /\ Did("getRecentFiles") /\ called' = {} /\ wrote' = <<>> /\ rawLog' = <<>>
  /\ UNCHANGED <<supervision, session, dir>>

\* the entries that may appear: a transcript saved by an Engine, a file put
\* there by the user, or a link to a file that does not exist, which
\* statSync() cannot follow
Entries ==
  {[name |-> n, mtime |-> t, statOk |-> TRUE] : n \in Names, t \in Mtimes}
  \cup {[name |-> n, mtime |-> 0, statOk |-> FALSE] : n \in Names}

\* an entry appears in the directory
FileAppears(f) ==
  /\ ctl # "boot"
  /\ Len(dir.entries) < MaxFiles
  /\ \A i \in DOMAIN dir.entries : dir.entries[i].name # f.name
  /\ dir' = [dir EXCEPT !.entries = Append(@, f)]
  /\ listed' = <<>> /\ asked' = 0 /\ purge' = NoPurge
  /\ Env
  /\ UNCHANGED <<supervision, session>>

\* the directory becomes unreadable, or readable again
DirAccess(b) ==
  /\ ctl # "boot"
  /\ dir.readable # b
  /\ dir' = [dir EXCEPT !.readable = b]
  /\ listed' = <<>> /\ asked' = 0 /\ purge' = NoPurge
  /\ Env
  /\ UNCHANGED <<supervision, session>>

\* the limit deleteOlderThan() lists the directory with. The code passes
\* 1000; the model keeps the cut at a length that a directory of MaxFiles
\* entries can exceed, as a directory on disk can exceed 1000
ListCap == 2

\* the values of new Date() at a call of deleteOlderThan(), in minutes
Clock == {DateValue(2024, 1, 2, 12, 0), DateValue(2024, 1, 3, 4, 0)}
\* the ages deleteOlderThan() is called with
Days == {0, 1}
\* the sets of files unlinkSync() fails on: none, or one transcript
Denials == {{}} \cup {{StampName(t)} : t \in Stamps}

\* cutoff = new Date(); cutoff.setDate(cutoff.getDate() - days)
cutoff(now, days) == now - days * 24 * 60

\* the descriptors deleteOlderThan() calls unlinkSync() for
condemned(days, now) ==
  SelectSeq(getRecentFiles(ListCap),
            LAMBDA file : days = 0 \/ file.date < cutoff(now, days))

\* deleteOlderThan(days) called at time now, unlinkSync() failing on the
\* files of denied: the entries left, the count returned, the failures logged
deleteOlderThan(days, now, denied) ==
  LET files == condemned(days, now)
      gone == {files[k].name : k \in DOMAIN files} \ denied
  IN [entries |-> SelectSeq(dir.entries, LAMBDA f : f.name \notin gone),
      deleted |-> Cardinality(gone),
      failed |-> Len(files) - Cardinality(gone)]

\* a call of deleteOlderThan(days)
DeleteOlderThan(days, now, denied) ==
  /\ ctl = "up"
  /\ \A n \in denied : \E i \in DOMAIN dir.entries : dir.entries[i].name = n
  /\ LET r == deleteOlderThan(days, now, denied) IN
       /\ dir' = [dir EXCEPT !.entries = r.entries]
       /\ purge' = [deleted |-> r.deleted, failed |-> r.failed]
  /\ listed' = <<>> /\ asked' = 0
  /\ Did("deleteOlderThan") /\ called' = {} /\ wrote' = <<>> /\ rawLog' = <<>>
  /\ UNCHANGED <<supervision, session>>

HistoryInit == Init /\ ~marker.exists

HistoryNext ==
  \/ Launch
  \/ \E limit \in Limits : GetRecentFiles(limit)
  \/ \E f \in Entries : FileAppears(f)
  \/ \E b \in BOOLEAN : DirAccess(b)

HistorySpec == HistoryInit /\ [][HistoryNext]_vars

(* the transcript directory under deleteOlderThan() *)
\* the entries that may appear: transcripts named by their session, a
\* transcript under another name, a file that is no transcript, and a link
\* to a file that does not exist
PurgeEntries ==
  {[name |-> n, mtime |-> DateValue(2024, 1, 2, 3, 6), statOk |-> TRUE] :
     n \in {StampName(t) : t \in Stamps}
            \cup {<<"x">> \o StampName(FirstStamp),
                  StampName(FirstStamp) \o <<".", "b", "a", "k">>,
                  <<"n", "o", "t", "e", "s", ".", "m", "d">>}}
  \cup {[name |-> <<"n", "o", "t", "e", "s", ".", "m", "d">>, mtime |-> 0,
         statOk |-> FALSE]}

PurgeNext ==
  \/ Launch
  \/ \E f \in PurgeEntries : FileAppears(f)
  \/ \E b \in BOOLEAN : DirAccess(b)
  \/ \E days \in Days, now \in Clock, denied \in Denials :
       DeleteOlderThan(days, now, denied)

PurgeSpec == HistoryInit /\ [][PurgeNext]_vars

(* ------------------------------ claims -------------------------------- *)
\* a child of this Controller that was spawned as a running Engine
Spawned(e) == e # Null /\ eng[e].pid # NoPid
QuitLine(e) == [to |-> e, line |-> Encode("quit")]

\* C1: a call of start() made while the supervisor holds a process handle
\* spawns nothing and leaves the handle, the children and the marker file as
\* they were.
C1_StartWhileRunningIsNoOp ==
  [][(op'.name = "start" /\ isRunning)
       => (eng' = eng /\ proc' = proc /\ marker' = marker)]_vars
\* start() has returned from a call made while a live Engine was held
C1_Witness ==
  /\ op = [name |-> "start", running |-> TRUE]
  /\ Spawned(proc) /\ eng[proc].alive
  /\ marker = File(toString(eng[proc].pid))

\* C2: nothing is spawned before the Controller is launched, and the launch
\* itself spawns nothing; when the marker file then names a live process, the
\* launch signals that process and removes the marker file.
C2_CleanupPrecedesFirstSpawn ==
  [][ctl = "boot"
       => /\ eng = <<>> /\ eng' = <<>>
          /\ (ctl' # "boot" /\ stale = "live")
               => /\ ParseInt(Trim(marker.text)).val \in orphans
                  /\ ParseInt(Trim(marker.text)).val \in signalled'
                  /\ ~marker'.exists]_vars
\* the stale process, signalled and not yet gone, beside this run's first Engine
C2_Witness ==
  /\ stale = "live"
  /\ orphans # {} /\ orphans \subseteq signalled
  /\ Len(eng) = 1 /\ eng[1].alive

\* C3: launched on a marker file that names no live process or holds no
\* number, the constructor can run and ends with the marker file removed and
\* no signal sent, start() can then run, and after the first start() that
\* spawns an Engine the marker file holds exactly that Engine's pid.
C3_CrashRecovery ==
  stale \in {"dead", "unparsable"} =>
    /\ ctl = "boot" => ENABLED Construct
    /\ op.name = "construct" => (ctl = "up" /\ ~marker.exists /\ signalled = {})
    /\ (ctl = "up" /\ eng = <<>>) => ENABLED CallStart
    /\ (op.name = "start" /\ Len(eng) = 1 /\ Spawned(1))
         => /\ marker = File(toString(eng[1].pid))
            /\ ParseInt(Trim(marker.text)) = [nan |-> FALSE, val |-> eng[1].pid]
\* the first start() after a launch on a dead pid has spawned an Engine whose
\* pid has two digits
C3_Witness ==
  /\ stale = "dead"
  /\ op = [name |-> "start", running |-> FALSE]
  /\ Len(eng) = 1 /\ Spawned(1) /\ eng[1].pid >= 10
  /\ marker.exists

C5_MarkerRemovedAfterStop ==
  (op.name = "stop" /\ op.running) ~> (proc = Null /\ ~marker.exists)
\* the Engine exited within the grace period: its exit is handled while the
\* timer of stop() is still pending
C5_Witness ==
  /\ op = [name |-> "exit", running |-> TRUE]
  /\ Len(eng) = 1 /\ Len(timers) = 1 /\ timers[1].elapsed < GracePeriod
  /\ proc = Null /\ ~marker.exists

\* C6: right after an exit or error event is handled, isRunning() is false and
\* the marker file does not exist.
C6_ExitOrErrorClearsHandleAndMarker ==
  op.name \in {"exit", "error"} => (~isRunning /\ ~marker.exists)
\* the exit of the held Engine was handled without any stop() pending
C6_Witness ==
  /\ op = [name |-> "exit", running |-> TRUE]
  /\ Len(eng) = 1 /\ timers = <<>>
  /\ ~isRunning /\ ~marker.exists

\* C7: right after the exit or the spawn error of the held Engine is handled
\* with no quit requested, a callback of the coordinator has been invoked and
\* the coordinator does not show a recording.
C7_ExitOrErrorSurfaced ==
  (op.name \in {"exit", "error"} /\ op.running /\ ctl = "up")
    => (called # {} /\ ~isRecording)
\* an Engine that reported a recording is gone and the coordinator still shows it
C7_Witness ==
  /\ op = [name |-> "exit", running |-> TRUE]
  /\ ctl = "up" /\ isRecording /\ ~isRunning

\* C8: a Start Recording action taken while no Engine is held leaves an Engine
\* held (it spawns one), whatever the coordinator's model says.
C8_StartRecordingRespawns ==
  (op.name = "startRecording" /\ ~op.running) => isRunning
\* Start Recording after the only Engine is gone, with the model saying idle
C8_Witness ==
  /\ op = [name |-> "startRecording", running |-> FALSE]
  /\ Len(eng) = 2 /\ proc = 2 /\ awaiting

\* C9: every spawn is a step of startRecording(): no exit, error, timer, line,
\* poll, stop or quit step adds a child.
C9_NoAutoRespawn ==
  [][Len(eng') # Len(eng) => op'.name = "startRecording"]_vars
\* a poll tick while the model says recording and the only Engine is gone
C9_Witness ==
  /\ op = [name |-> "poll", running |-> FALSE]
  /\ isRecording
  /\ Len(eng) = 1 /\ eng[1] = Gone

\* C10: send() changes nothing but the child's input: with no handle it writes
\* nothing, and with a handle on a spawned Engine it writes exactly one line,
\* the encoded command ended by a newline, to that Engine.
C10_SendWritesOneLineOrNothing ==
  [][op'.name = "send"
       => /\ UNCHANGED <<proc, marker, callbacks, eng, timers, signalled, coord>>
          /\ ~isRunning => wrote' = <<>>
          /\ Spawned(proc)
               => /\ Len(wrote') = 1
                  /\ wrote'[1].to = proc
                  /\ \E c \in Commands : wrote'[1].line = Encode(c)
                  /\ wrote'[1].line[Len(wrote'[1].line)] = "\n"]_vars
\* send() was called after the only Engine was gone
C10_Witness ==
  /\ op = [name |-> "send", running |-> FALSE]
  /\ Len(eng) = 1 /\ ~eng[1].alive
  /\ wrote = <<>>

\* C11: handling a line that does not parse prints that line raw, invokes no
\* callback and changes nothing else of the Controller; right after it the
\* reader can still take any line of a child whose output is open; and a line
\* that parses is handed to the registered message callback when it is read.
C11_MalformedLineLoggedNotDelivered ==
  /\ [][\A e \in EngineIds, line \in Lines :
          OnLine(e, line) =>
            IF ~line.json
            THEN /\ rawLog' = <<line>> /\ called' = {}
                 /\ UNCHANGED <<ctl, marker, signalled, eng, proc, timers,
                                callbacks, coord, awaiting>>
            ELSE callbacks.message # "null" => called' = {"onMessage"}]_vars
  /\ [](rawLog # <<>> =>
          \A e \in EngineIds : StdioOpen(e) =>
            \A line \in Lines : ENABLED OnLine(e, line))
\* a line that does not parse was read while the coordinator shows a recording
C11_Witness ==
  /\ op.name = "line" /\ called = {}
  /\ rawLog # <<>> /\ ~rawLog[1].json
  /\ isRecording /\ currentSession # Null /\ isRunning

\* C12: at most one Engine spawned by this supervisor is alive at any time.
C12_AtMostOneEngineAlive ==
  Cardinality({e \in EngineIds : eng[e].alive}) <= 1
\* the first Engine, signalled by the grace timer and not yet ended, beside a
\* second one started after the timer cleared the handle
C12_Witness ==
  /\ Len(eng) = 2 /\ proc = 2
  /\ eng[1].alive /\ eng[1].pid \in signalled
  /\ eng[2].alive /\ eng[2].pid \notin signalled

\* C13: every live Engine of this supervisor that was spawned with a pid and
\* has not been sent a termination signal is named by the marker file.
C13_LiveEngineIsMarked ==
  \A e \in EngineIds :
    (eng[e].alive /\ eng[e].pid \notin signalled)
      => marker = File(toString(eng[e].pid))
\* the exit of the first Engine was handled while the second was held: the
\* second is alive, not signalled, and no marker file exists
C13_Witness ==
  /\ op = [name |-> "exit", running |-> TRUE]
  /\ Len(eng) = 2 /\ eng[1] = Gone
  /\ eng[2].alive /\ eng[2].pid \notin signalled
  /\ ~marker.exists

\* C14: a Start Recording action taken while the model says recording writes
\* nothing, spawns nothing and leaves no send pending; a Stop Recording action
\* taken while the model says not recording writes nothing; and a start line is
\* written only by a startRecording() that began while the model said not
\* recording, a stop line only while it says recording.
C14_MatchingStateIsNoOp ==
  [][/\ (op'.name = "startRecording" /\ isRecording)
          => (wrote' = <<>> /\ eng' = eng /\ proc' = proc /\ ~awaiting')
     /\ (op'.name = "stopRecording" /\ ~isRecording) => wrote' = <<>>
     /\ (\E i \in DOMAIN wrote' : wrote'[i].line = Encode("start"))
          => (op'.name = "resume" /\ ~isRecording)
     /\ (\E i \in DOMAIN wrote' : wrote'[i].line = Encode("stop"))
          => (op'.name \in {"stopRecording", "quit"} /\ isRecording)]_vars
\* Start Recording was chosen while a session was shown as recording on a
\* running Engine
C14_Witness ==
  /\ op = [name |-> "startRecording", running |-> TRUE]
  /\ isRecording /\ currentSession # Null
  /\ Len(eng) = 1 /\ eng[1].alive /\ ~awaiting /\ wrote = <<>>

C16_EventsTranslated ==
  [][\A e \in EngineIds, line \in Lines :
       (/\ OnLine(e, line)
        /\ line.json /\ line.msg # JsonNull
        /\ callbacks.message = "coordinator")
         => /\ line.msg.type = "stopped"
                 => (~isRecording' /\ currentSession' = Null
                       /\ recordingDuration' = 0)
            /\ line.msg.type = "started"
                 => (isRecording' /\ currentSession' = line.msg.session)
            /\ line.msg.type \in {"ready", "transcript", "error", "saved"}
                 => UNCHANGED coord]_vars
\* the callback has handled a line of a live Engine after a second Engine was
\* started, and the model shows no recording, no session and no duration
C16_Witness ==
  /\ op = [name |-> "line", running |-> TRUE] /\ called = {"onMessage"}
  /\ Len(eng) = 2 /\ proc = 2 /\ eng[2].alive
  /\ ~isRecording /\ currentSession = Null /\ recordingDuration = 0

\* the lines quit() writes to a held Engine: stop, if the model says
\* recording, and then quit
QuitWritesInOrder ==
  [][(op'.name = "quit" /\ Spawned(proc))
       => wrote' = (IF isRecording
                    THEN <<[to |-> proc, line |-> Encode("stop")]>>
                    ELSE <<>>) \o <<QuitLine(proc)>>]_vars

\* C17: Quit chosen while an Engine is held writes the stop line, if the model
\* says recording, and then the quit line to that Engine; and once the
\* Controller has ended, the marker file is removed and every Engine still
\* alive has been sent the termination signal.
C17_QuitEndsEngine ==
  /\ QuitWritesInOrder
  /\ [](ctl = "gone" =>
          /\ ~marker.exists
          /\ \A e \in EngineIds : eng[e].alive => eng[e].pid \in signalled)
\* the Controller has ended before the grace period was over: the Engine is
\* alive, unsignalled, and the marker file still names it
C17_Witness ==
  /\ ctl = "gone" /\ timers = <<>>
  /\ Len(eng) = 1 /\ eng[1].alive /\ signalled = {}
  /\ marker = File(toString(eng[1].pid))

\* the entries of the directory whose name ends in .md
MdEntries == {i \in DOMAIN dir.entries : endsWith(dir.entries[i].name, MdExt)}
\* name holds the stamp of t followed by .md
HoldsStamp(name, t) ==
  \E i \in 1 .. Len(name) :
    /\ i + Len(StampName(t)) - 1 <= Len(name)
    /\ SubSeq(name, i, i + Len(StampName(t)) - 1) = StampName(t)
\* the date the claim gives entry f: the time written in its name, if one is,
\* and its modification time otherwise
ClaimedDate(f) ==
  IF \E t \in Stamps : HoldsStamp(f.name, t)
  THEN LET t == CHOOSE t \in Stamps : HoldsStamp(f.name, t)
       IN DateValue(t.y, t.mo, t.d, t.h, t.mi)
  ELSE f.mtime

\* C18: right after getRecentFiles(limit), the result is empty if the
\* directory or one of its .md entries cannot be read; otherwise every
\* descriptor is that of a different .md entry, with the date written in the
\* entry's name or else its modification time, the dates do not increase along
\* the result, the result has limit descriptors or all of them if there are
\* fewer, and no entry left out is more recent than one returned.
C18_RecentFilesListed ==
  op.name = "getRecentFiles" =>
    IF ~dir.readable \/ \E i \in MdEntries : ~dir.entries[i].statOk
    THEN listed = <<>>
    ELSE /\ Len(listed) = IF asked < Cardinality(MdEntries)
                          THEN asked ELSE Cardinality(MdEntries)
         /\ \A k \in DOMAIN listed :
              \E i \in MdEntries :
                /\ listed[k].name = dir.entries[i].name
                /\ listed[k].date = ClaimedDate(dir.entries[i])
         /\ \A k, l \in DOMAIN listed :
              /\ k # l => listed[k].name # listed[l].name
              /\ k < l => listed[k].date >= listed[l].date
         /\ \A i \in MdEntries :
              (\A k \in DOMAIN listed : listed[k].name # dir.entries[i].name)
                => \A k \in DOMAIN listed :
                     listed[k].date >= ClaimedDate(dir.entries[i])
\* of three .md entries the two most recent were returned: one dated by its
\* modification time before one dated by its name, the oldest, which comes
\* first in the directory, left out
C18_Witness ==
  /\ op.name = "getRecentFiles" /\ asked = 2
  /\ Len(dir.entries) = 3 /\ Cardinality(MdEntries) = 3
  /\ dir.entries[1].name = StampName(CHOOSE t \in Stamps : t.y = 2023)
  /\ Len(listed) = 2
  /\ listed[1].name = <<"n", "o", "t", "e", "s", ".", "m", "d">>
  /\ listed[1].date > listed[2].date
  /\ listed[2].name = StampName(FirstStamp)

\* C19: a grace timer that fires while the supervisor holds another child than
\* the one stop() was called on sends no signal and leaves the handle and the
\* marker file as they are.
C19_TimerSparesLaterEngine ==
  [][(op'.name = "timer" /\ isRunning /\ Head(timers).target # proc)
       => (signalled' = signalled /\ proc' = proc /\ marker' = marker)]_vars
\* the first Engine exited within the grace period, a second one was started
\* and is held, and the timer armed for the first is due
C19_Witness ==
  /\ Len(eng) = 2 /\ eng[1] = Gone
  /\ proc = 2 /\ eng[2].alive /\ signalled = {}
  /\ marker = File(toString(eng[2].pid))
  /\ timers # <<>> /\ Head(timers).target = 1
  /\ Head(timers).elapsed >= Head(timers).delay
  /\ ENABLED TimerFire

\* C20: handling the exit or error event of a child other than the one held
\* leaves the handle set and the marker file naming the held child.
C20_StaleEventSparesLaterEngine ==
  [][\A e \in EngineIds :
       ((ExitEvent(e) \/ ErrorEvent(e)) /\ Spawned(proc) /\ e # proc)
         => (proc' = proc /\ marker' = File(toString(eng[proc].pid)))]_vars
\* the exit event of the first Engine was handled while the second was held:
\* no handle, no marker file, and the second Engine alive
C20_Witness ==
  /\ op = [name |-> "exit", running |-> TRUE]
  /\ Len(eng) = 2 /\ eng[1] = Gone /\ eng[2].alive
  /\ proc = Null /\ ~marker.exists

\* C21: from the end of the constructor on, and so after every start(), stop(),
\* timer expiry, exit event and error event, the marker file holds the pid of
\* the held child if the supervisor holds a child that was spawned with a pid,
\* and does not exist if the supervisor holds no child.
C21_HandleAndMarkerAgree ==
  ctl # "boot" =>
    /\ Spawned(proc) => marker = File(toString(eng[proc].pid))
    /\ proc = Null => ~marker.exists
\* a second Engine is held and marked while the first, signalled by the grace
\* timer, is still alive
C21_Witness ==
  /\ op = [name |-> "start", running |-> FALSE]
  /\ Len(eng) = 2 /\ proc = 2 /\ Spawned(2)
  /\ eng[1].alive /\ eng[1].pid \in signalled
  /\ marker = File(toString(eng[2].pid))

\* C22: deleteOlderThan(days), when the directory and its transcript files can
\* be read and unlinked, removes exactly the .md entries dated before now
\* minus days days (all of them when days is 0), whatever their number, and
\* returns how many it removed.
C22_OldTranscriptsDeleted ==
  [][\A days \in Days, now \in Clock :
       (/\ DeleteOlderThan(days, now, {})
        /\ dir.readable
        /\ \A i \in MdEntries : dir.entries[i].statOk)
         => LET old == {i \in MdEntries :
                         \/ days = 0
                         \/ ClaimedDate(dir.entries[i]) < now - days * 24 * 60}
            IN /\ dir'.entries =
                    SelectSeq(dir.entries,
                              LAMBDA f : \A i \in old : dir.entries[i] # f)
               /\ purge'.deleted = Cardinality(old)]_vars
\* deleteOlderThan() has just removed the ListCap most recent of three
\* transcripts without a failure, and the oldest is still in the directory
C22_Witness ==
  /\ op = [name |-> "deleteOlderThan", running |-> FALSE]
  /\ purge = [deleted |-> ListCap, failed |-> 0]
  /\ dir.readable
  /\ Len(dir.entries) = 1
  /\ dir.entries[1].name = StampName(CHOOSE t \in Stamps : t.y = 2023)
  /\ dir.entries[1].statOk
====
